---- MODULE Spec2Model ----
(***************************************************************************)
(* A model of app.py, the Streamlit movie sampler.                         *)
(*                                                                         *)
(* Streamlit runs the script from its first line on every interaction, so  *)
(* a behaviour is a sequence of script runs.  A run starts with the        *)
(* module-level assignments (client = db = col = ds_col = None), then      *)
(* passes the connection test button, load_df(), the tab-1 handlers and    *)
(* the tab-2 handlers in source order; pc is the position in the run.      *)
(* The session state, the widget values, the st.cache_data entry of        *)
(* load_df and the two MongoDB collections live across runs.               *)
(*                                                                         *)
(* Python None is the string None where the other values are strings, -1   *)
(* where they are natural numbers, and NoneText where they are texts.      *)
(* A text is a sequence of one-character strings.                          *)
(***************************************************************************)
EXTENDS Integers, Sequences, FiniteSets, TLC

VARIABLES
    pop,            \* documents of the Population collection (server side)
    ds,             \* documents of the Data-Set collection, in natural order
    backend,        \* what the MongoDB deployment answers right now
    client,         \* app.py:41  module global
    db,             \* app.py:42
    col,            \* app.py:43
    ds_col,         \* app.py:44
    cache,          \* the st.cache_data entry of load_df
    age,            \* seconds since that entry was stored
    pc,             \* position of the running script ("idle": no run)
    button,         \* the button whose click started the run
    really,         \* the "I understand" checkbox (a widget value)
    df_all,         \* app.py:214  df_all = load_df(), as last bound
    shown,          \* the sample on the operator's screen
    shownAtConfirm, \* what was on the screen when the box was last ticked
    url,            \* the URL text input (a widget value)
    fetched_doc,    \* st.session_state["fetched_doc"]
    page,           \* the page handed to fetch_min_from_imdb (extractor runs)
    ret             \* what the last operation returned, raised and saw

vars == <<pop, ds, backend, client, db, col, ds_col, cache, age, pc, button,
          really, df_all, shown, shownAtConfirm, url, fetched_doc, page, ret>>

None == "None"
NoneInt == 0 - 1
NoneText == <<"None">>

Min(a, b) == IF a < b THEN a ELSE b

(***************************************************************************)
(* Bounds of the model.                                                    *)
(***************************************************************************)
MaxID == 3
MaxDS == 2
TickSeconds == 5

(* @st.cache_data(ttl=10) *)
TTL == 10

(***************************************************************************)
(* The Population collection.  Documents are loaded from outside the       *)
(* program; nothing in app.py makes ID unique, so the universe holds one   *)
(* more document that repeats ID 1.  oid stands for Mongo's _id, which     *)
(* also gives the natural (insertion) order.                               *)
(***************************************************************************)
Titles == <<"Volver", "Julieta", "Rec", "Roma", "Biutiful", "Abre los ojos">>

PopUniverse ==
    {[oid |-> i, ID |-> i, Movie |-> Titles[i]] : i \in 1..MaxID}
        \cup {[oid |-> MaxID + 1, ID |-> 1, Movie |-> Titles[MaxID + 1]]}

UniqueIDs(docs) == \A a, b \in docs : a.ID = b.ID => a = b

IDsOf(docs) == {d.ID : d \in docs}

(* {"_id": 0, "ID": 1, "Movie": 1} *)
Project(d) == [ID |-> d.ID, Movie |-> d.Movie]

(* int(x) of a Python int *)
PyInt(x) == x

(* .sort("ID", 1): ascending ID, equal IDs in natural order *)
RECURSIVE SortByID(_)
SortByID(docs) ==
    IF docs = {} THEN <<>>
    ELSE LET first == CHOOSE d \in docs :
                         \A e \in docs : d.ID < e.ID \/ (d.ID = e.ID /\ d.oid <= e.oid)
         IN  <<first>> \o SortByID(docs \ {first})

(***************************************************************************)
(* The backend.  "up" answers; "down" cannot be selected within the        *)
(* timeouts; "nodns" makes MongoClient(...) itself fail (the SRV lookup of *)
(* the URI); "reject" answers every command with an error.                 *)
(***************************************************************************)
Backends == {"up", "down", "nodns", "reject"}

(* exceptions named by load_df's except clause *)
LoadDfCaught == {"ServerSelectionTimeoutError", "ConnectionFailure", "ConfigurationError"}

get_client(bk) ==
    IF bk = "nodns" THEN [exc |-> "ConfigurationError", client |-> None]
    ELSE [exc |-> None, client |-> "MongoClient"]

(* a command sent through an existing client *)
Command(bk) ==
    CASE bk = "up" -> None
      [] bk = "reject" -> "OperationFailure"
      [] OTHER -> "ServerSelectionTimeoutError"

(* a method call on a collection global: None has no find/delete_one/... *)
CollectionCall(handle, bk) ==
    IF handle = None THEN "AttributeError" ELSE Command(bk)

Globals == [client |-> client, db |-> db, col |-> col, ds_col |-> ds_col]

NoGlobals == [client |-> None, db |-> None, col |-> None, ds_col |-> None]

(* col.find({}, {"_id": 0, "ID": 1, "Movie": 1}).sort("ID", 1) *)
Listing(docs) ==
    LET sorted == SortByID(docs)
    IN  [i \in 1..Len(sorted) |-> Project(sorted[i])]

(* the globals after the call, and the exception it raised (None: none) *)
ensure_connection(g, bk) ==
    IF g.client # None THEN [g |-> g, exc |-> None]
    ELSE LET c == get_client(bk) IN
         IF c.exc # None THEN [g |-> g, exc |-> c.exc]
         ELSE IF Command(bk) # None
              THEN [g |-> [g EXCEPT !.client = c.client], exc |-> Command(bk)]
              ELSE [g |-> [client |-> c.client, db |-> "db", col |-> "col",
                           ds_col |-> "ds_col"],
                    exc |-> None]

(***************************************************************************)
(* The store operations as functions of the globals, the backend and the   *)
(* collection: each gives the globals after the call, the exception that   *)
(* occurred inside (exc), whether it left the function (raised), and the   *)
(* return value with the collection afterwards.                            *)
(***************************************************************************)
load_df_body(g, bk, docs) ==
    LET c == ensure_connection(g, bk)
        exc == IF c.exc # None THEN c.exc ELSE CollectionCall(c.g.col, bk)
    IN  [g |-> c.g, exc |-> exc,
         raised |-> (exc # None /\ exc \notin LoadDfCaught),
         df |-> IF exc = None THEN Listing(docs) ELSE <<>>]

FirstMatch(docs, id) ==
    LET hits == {d \in docs : d.ID = id}
    IN  IF hits = {} THEN {}
        ELSE {CHOOSE d \in hits : \A e \in hits : d.oid <= e.oid}

delete_one_by_id_all(g, bk, docs, movie_id) ==
    LET c == ensure_connection(g, bk)
        exc == IF c.exc # None THEN c.exc ELSE CollectionCall(c.g.col, bk)
        gone == IF exc = None THEN {d \in docs : d.ID = PyInt(movie_id)} ELSE {}
    IN  [g |-> c.g, exc |-> exc, raised |-> FALSE,
         count |-> Cardinality(gone), docs |-> docs \ gone]

delete_one_by_id(g, bk, docs, movie_id) ==
    LET c == ensure_connection(g, bk)
        exc == IF c.exc # None THEN c.exc ELSE CollectionCall(c.g.col, bk)
        gone == IF exc = None THEN FirstMatch(docs, PyInt(movie_id)) ELSE {}
    IN  [g |-> c.g, exc |-> exc, raised |-> FALSE,
         count |-> Cardinality(gone), docs |-> docs \ gone]

(* $sample: the possible results of drawing size documents *)
Samples(docs, size) ==
    {S \in SUBSET docs : Cardinality(S) = Min(size, Cardinality(docs))}

(* sample_docs with the drawn sample S given *)
sample_docs(g, bk, S) ==
    LET c == ensure_connection(g, bk)
        exc == IF c.exc # None THEN c.exc ELSE CollectionCall(c.g.col, bk)
    IN  [g |-> c.g, exc |-> exc, raised |-> FALSE,
         sdocs |-> IF exc = None THEN {Project(d) : d \in S} ELSE {}]

delete_many_by_ids_first(g, bk, docs, ids) ==
    LET c == ensure_connection(g, bk)
        exc == IF c.exc # None THEN c.exc ELSE CollectionCall(c.g.col, bk)
        some == {d \in docs : d.ID \in {PyInt(x) : x \in ids}}
        gone == IF exc = None /\ some # {}
                THEN {CHOOSE d \in some : \A e \in some : d.oid <= e.oid} ELSE {}
    IN  [g |-> c.g, exc |-> exc, raised |-> FALSE,
         count |-> Cardinality(gone), docs |-> docs \ gone]

delete_many_by_ids(g, bk, docs, ids) ==
    LET c == ensure_connection(g, bk)
        exc == IF c.exc # None THEN c.exc ELSE CollectionCall(c.g.col, bk)
        gone == IF exc = None THEN {d \in docs : d.ID \in {PyInt(x) : x \in ids}} ELSE {}
    IN  [g |-> c.g, exc |-> exc, raised |-> FALSE,
         count |-> Cardinality(gone), docs |-> docs \ gone]

(***************************************************************************)
(* Texts, and the parsers of app.py:95-112.                                *)
(***************************************************************************)
DigitChars == {"0", "1", "2", "3", "4", "5", "6", "7", "8", "9"}

IsDigit(c) == c \in DigitChars

IsSpace(c) == c = " "

DigitVal(c) ==
    CASE c = "0" -> 0 [] c = "1" -> 1 [] c = "2" -> 2 [] c = "3" -> 3 [] c = "4" -> 4
      [] c = "5" -> 5 [] c = "6" -> 6 [] c = "7" -> 7 [] c = "8" -> 8 [] c = "9" -> 9

DigitChar(n) ==
    CASE n = 0 -> "0" [] n = 1 -> "1" [] n = 2 -> "2" [] n = 3 -> "3" [] n = 4 -> "4"
      [] n = 5 -> "5" [] n = 6 -> "6" [] n = 7 -> "7" [] n = 8 -> "8" [] n = 9 -> "9"

(* int(digits) of a non-empty run of digits *)
RECURSIVE ToInt(_)
ToInt(digits) ==
    IF Len(digits) = 0 THEN 0
    ELSE 10 * ToInt(SubSeq(digits, 1, Len(digits) - 1)) + DigitVal(digits[Len(digits)])

(* str(n) of a natural number *)
RECURSIVE IntToText(_)
IntToText(n) ==
    IF n < 10 THEN <<DigitChar(n)>> ELSE IntToText(n \div 10) \o <<DigitChar(n % 10)>>

(* s.strip() *)
RECURSIVE Strip(_)
Strip(s) ==
    IF Len(s) = 0 THEN s
    ELSE IF IsSpace(s[1]) THEN Strip(Tail(s))
    ELSE IF IsSpace(s[Len(s)]) THEN Strip(SubSeq(s, 1, Len(s) - 1))
    ELSE s

(* the end of the run of digits that starts at i *)
RECURSIVE RunEnd(_, _)
RunEnd(s, i) == IF i < Len(s) /\ IsDigit(s[i + 1]) THEN RunEnd(s, i + 1) ELSE i

(* the first position from k on that holds no whitespace *)
RECURSIVE SkipSpace(_, _)
SkipSpace(s, k) == IF k <= Len(s) /\ IsSpace(s[k]) THEN SkipSpace(s, k + 1) ELSE k

(* re.search(r"(\d+)" + (r"\s*" if spaces) + letter, s): group 1 as an int, *)
(* NoneInt when nothing matches                                            *)
SearchNumber(s, spaces, letter) ==
    LET after(i) == IF spaces THEN SkipSpace(s, RunEnd(s, i) + 1) ELSE RunEnd(s, i) + 1
        hits == {i \in 1..Len(s) :
                    /\ IsDigit(s[i])
                    /\ after(i) <= Len(s)
                    /\ s[after(i)] = letter}
    IN  IF hits = {} THEN NoneInt
        ELSE LET i == CHOOSE x \in hits : \A y \in hits : x <= y
             IN  ToInt(SubSeq(s, i, RunEnd(s, i)))

(* re.match(r"(\d{4})", s) *)
MatchYear(s) ==
    IF Len(s) >= 4 /\ \A i \in 1..4 : IsDigit(s[i])
    THEN ToInt(SubSeq(s, 1, 4)) ELSE NoneInt

(***************************************************************************)
(* JSON values of a structured-data block, tagged by type: null, str (a    *)
(* text), num (n / 10^scale), obj (an aggregateRating object with its two  *)
(* members; empty: without members).                                       *)
(***************************************************************************)
JNull == [t |-> "null"]
JStr(s) == [t |-> "str", s |-> s]
JNum(n, scale) == [t |-> "num", n |-> n, scale |-> scale]
JAgg(rv, rc) == [t |-> "obj", empty |-> FALSE, ratingValue |-> rv, ratingCount |-> rc]
JEmptyObj == [t |-> "obj", empty |-> TRUE, ratingValue |-> JNull, ratingCount |-> JNull]

(* Python truthiness *)
Truthy(v) ==
    CASE v.t = "null" -> FALSE
      [] v.t = "str" -> Len(v.s) > 0
      [] v.t = "num" -> v.n # 0
      [] v.t = "obj" -> ~v.empty

(* str(v) of a str or a num *)
PyStr(v) ==
    IF v.t = "str" THEN v.s
    ELSE IF v.scale = 0 THEN IntToText(v.n)
    ELSE LET d == IntToText(v.n)
             w == IF Len(d) > v.scale THEN d
                  ELSE [i \in 1..v.scale + 1 |->
                          IF i <= v.scale + 1 - Len(d) THEN "0"
                          ELSE d[i - (v.scale + 1 - Len(d))]]
         IN  SubSeq(w, 1, Len(w) - v.scale) \o <<".">> \o
             SubSeq(w, Len(w) - v.scale + 1, Len(w))

NoneFloat == [some |-> FALSE, num |-> 0, scale |-> 0]

(* float(text): digits with at most one point and an optional sign, spaces *)
(* around allowed; anything else is a ValueError                           *)
FloatOfText(text) ==
    LET s == Strip(text)
        signed == Len(s) > 0 /\ s[1] \in {"+", "-"}
        body == IF signed THEN Tail(s) ELSE s
        points == {i \in 1..Len(body) : body[i] = "."}
        digits == SelectSeq(body, IsDigit)
        ok == /\ Len(digits) > 0
              /\ Cardinality(points) <= 1
              /\ Len(digits) + Cardinality(points) = Len(body)
        scale == IF points = {} THEN 0
                 ELSE Len(body) - (CHOOSE i \in points : TRUE)
        num == ToInt(digits)
    IN  IF ok
        THEN [exc |-> None,
              val |-> [some |-> TRUE,
                       num |-> IF signed /\ s[1] = "-" THEN 0 - num ELSE num,
                       scale |-> scale]]
        ELSE [exc |-> "ValueError", val |-> NoneFloat]

(* float(v) *)
PyFloat(v) ==
    CASE v.t = "str" -> FloatOfText(v.s)
      [] v.t = "num" -> [exc |-> None, val |-> [some |-> TRUE, num |-> v.n, scale |-> v.scale]]
      [] OTHER -> [exc |-> "TypeError", val |-> NoneFloat]

(* app.py:95-99 *)
to_int_safe(v) ==
    IF v.t = "null" THEN NoneInt
    ELSE LET digits == SelectSeq(PyStr(v), IsDigit)
         IN  IF Len(digits) > 0 THEN ToInt(digits) ELSE NoneInt

(* app.py:101-112; re.search on a value that is no str is a TypeError *)
iso8601_duration_to_minutes(v) ==
    IF ~Truthy(v) THEN [exc |-> None, val |-> NoneInt]
    ELSE IF v.t # "str" THEN [exc |-> "TypeError", val |-> NoneInt]
    ELSE LET m_h == SearchNumber(v.s, FALSE, "H")
             m_m == SearchNumber(v.s, FALSE, "M")
             h == IF m_h # NoneInt THEN m_h ELSE 0
             m == IF m_m # NoneInt THEN m_m ELSE 0
             total == h * 60 + m
         IN  [exc |-> None, val |-> IF total > 0 THEN total ELSE NoneInt]

(***************************************************************************)
(* A fetched page: the HTTP outcome, the ld+json script blocks in document *)
(* order, and the text of the runtime list item (NoneText: no such tag).   *)
(* A block does not parse, or holds one object, a list of values, or       *)
(* another JSON value.                                                     *)
(***************************************************************************)
LdTypes == {"Movie", "CreativeWork"}

(* app.py:136-149: the selected object, as a sequence of at most one *)
RECURSIVE FirstLdIn(_)
FirstLdIn(items) ==
    IF Len(items) = 0 THEN <<>>
    ELSE IF items[1].isdict /\ items[1].type \in LdTypes THEN <<items[1]>>
    ELSE FirstLdIn(Tail(items))

RECURSIVE SelectLd(_)
SelectLd(blocks) ==
    IF Len(blocks) = 0 THEN <<>>
    ELSE LET b == blocks[1]
             found == IF ~b.parses THEN <<>>
                      ELSE IF b.kind = "list" THEN FirstLdIn(b.items)
                      ELSE IF b.kind = "obj" THEN FirstLdIn(<<b.items[1]>>)
                      ELSE <<>>
         IN  IF Len(found) > 0 THEN found ELSE SelectLd(Tail(blocks))

(* app.py:172-180 *)
RuntimeFallback(runtime_tag) ==
    IF runtime_tag = NoneText THEN NoneInt
    ELSE LET h == SearchNumber(runtime_tag, TRUE, "h")
             m == SearchNumber(runtime_tag, TRUE, "m")
             total == (IF h # NoneInt THEN h * 60 ELSE 0) + (IF m # NoneInt THEN m ELSE 0)
         IN  IF total = 0 THEN NoneInt ELSE total

NoDoc == [URL |-> NoneText, Year |-> NoneInt, rating |-> NoneFloat,
          votes |-> NoneInt, Runtime |-> NoneInt]

(* app.py:115-188: the exception raised (None: none) and the returned dict *)
fetch_min_from_imdb(u, pg) ==
    IF pg.status # "ok" THEN [exc |-> "RequestException", doc |-> NoDoc]
    ELSE
    LET sel == SelectLd(pg.blocks)
        has == Len(sel) > 0
        ld == sel[1]
        year == IF has /\ Truthy(ld.datePublished)
                THEN MatchYear(PyStr(ld.datePublished)) ELSE NoneInt
        agg == IF has /\ Truthy(ld.aggregateRating) THEN ld.aggregateRating ELSE JEmptyObj
        aggExc == IF agg.t # "obj" THEN "AttributeError" ELSE None
        rv == IF aggExc = None /\ agg.ratingValue.t # "null"
              THEN PyFloat(agg.ratingValue) ELSE [exc |-> None, val |-> NoneFloat]
        rc == IF aggExc = None THEN to_int_safe(agg.ratingCount) ELSE NoneInt
        dur == IF has THEN iso8601_duration_to_minutes(ld.duration)
               ELSE [exc |-> None, val |-> NoneInt]
        exc == IF aggExc # None THEN aggExc
               ELSE IF rv.exc # None THEN rv.exc
               ELSE dur.exc
        runtime == IF dur.val # NoneInt THEN dur.val ELSE RuntimeFallback(pg.runtime_tag)
    IN  IF exc # None THEN [exc |-> exc, doc |-> NoDoc]
        ELSE [exc |-> None,
              doc |-> [URL |-> u, Year |-> year, rating |-> rv.val, votes |-> rc,
                       Runtime |-> runtime]]

(***************************************************************************)
(* The pages the extractor is run on: every combination of a block layout  *)
(* and a choice for each member of the object and for the runtime tag.     *)
(***************************************************************************)
DatePublishedChoices ==
    <<JNull, JStr(<<"2", "0", "1", "4", "-", "1", "1", "-", "0", "7">>), JStr(<<"s", "o", "o", "n">>), JNum(2014, 0)>>

RatingValueChoices ==
    <<JNull, JStr(<<"8", ".", "6">>), JNum(86, 1), JStr(<<"N", "/", "A">>), JStr(<<" ", "7">>)>>

RatingCountChoices ==
    <<JNull, JStr(<<"2", ",", "1", "0", "0", ",", "0", "0", "0">>), JNum(2100000, 0)>>

DurationChoices ==
    <<JNull, JStr(<<"P", "T", "2", "H", "4", "9", "M">>), JStr(<<"P", "T", "4", "5", "M">>), JStr(<<"P", "T", "0", "H", "0", "M">>), JNum(169, 0)>>

RuntimeTagChoices ==
    <<NoneText, <<"2", "h", " ", "4", "9", "m">>, <<"4", "9", " ", "m">>, <<"n", "/", "a">>>>

(* aggregateRating: absent, an object of the two members, {}, a string *)
AggregateChoices(rv, rc) ==
    <<JNull, JAgg(RatingValueChoices[rv], RatingCountChoices[rc]), JEmptyObj, JStr(<<"8", ".", "6">>)>>

LdObject(type, c) ==
    [isdict |-> TRUE, type |-> type,
     datePublished |-> DatePublishedChoices[c.dp],
     aggregateRating |-> AggregateChoices(c.rv, c.rc)[c.agg],
     duration |-> DurationChoices[c.dur]]

NotADict == [isdict |-> FALSE, type |-> None, datePublished |-> JNull,
             aggregateRating |-> JNull, duration |-> JNull]

Unparseable == [parses |-> FALSE, kind |-> "other", items |-> <<>>]
ObjBlock(o) == [parses |-> TRUE, kind |-> "obj", items |-> <<o>>]
ListBlock(items) == [parses |-> TRUE, kind |-> "list", items |-> items]
OtherBlock == [parses |-> TRUE, kind |-> "other", items |-> <<>>]

BlockLayouts(c) ==
    << <<>>,
       <<Unparseable>>,
       <<ObjBlock(LdObject("Movie", c))>>,
       <<ListBlock(<<NotADict, LdObject("Person", [c EXCEPT !.agg = 1]),
                    LdObject("Movie", c)>>)>>,
       <<Unparseable, OtherBlock, ObjBlock(LdObject("CreativeWork", c))>>,
       <<ObjBlock(LdObject("Person", c))>> >>

FirstChoice == [layout |-> 1, dp |-> 1, agg |-> 1, rv |-> 1, rc |-> 1, dur |-> 1, rt |-> 1]

PageChoices ==
    [layout : 1..Len(BlockLayouts(FirstChoice)), dp : 1..Len(DatePublishedChoices),
     agg : 1..Len(AggregateChoices(1, 1)),
     rv : 1..Len(RatingValueChoices), rc : 1..Len(RatingCountChoices),
     dur : 1..Len(DurationChoices), rt : 1..Len(RuntimeTagChoices)]

PageOf(c) ==
    [status |-> "ok", blocks |-> BlockLayouts(c)[c.layout],
     runtime_tag |-> RuntimeTagChoices[c.rt]]

(***************************************************************************)
(* The Data-Set collection and the form of tab 2.                          *)
(***************************************************************************)
UrlX == <<"X">>
UrlY == <<"Y">>

(* what the URL input holds: nothing, a URL typed with a space before it, *)
(* a URL                                                                  *)
UrlTexts == {<<>>, <<" ">> \o UrlX, UrlY}

(* the manual inputs of one filled form *)
Forms ==
    {[mv |-> <<>>, genre_text |-> <<>>, dir_text |-> <<>>, writer_text |-> <<>>,
      country_text |-> <<>>, gross_num |-> 0],
     [mv |-> <<"F", "o", "o">>, genre_text |-> <<"d", ",", " ", "t">>, dir_text |-> <<"A">>, writer_text |-> <<>>,
      country_text |-> <<"E", "S", ",">>, gross_num |-> 5000],
     [mv |-> <<"F", "o", "o">>, genre_text |-> <<" ", ",", "d">>, dir_text |-> <<>>, writer_text |-> <<"A">>,
      country_text |-> <<>>, gross_num |-> 0]}

(* s.split(",") *)
RECURSIVE Split(_)
Split(s) ==
    LET commas == {i \in 1..Len(s) : s[i] = ","} IN
    IF commas = {} THEN <<s>>
    ELSE LET i == CHOOSE x \in commas : \A y \in commas : x <= y
         IN  <<SubSeq(s, 1, i - 1)>> \o Split(SubSeq(s, i + 1, Len(s)))

NonEmpty(x) == Len(x) > 0

(* app.py:298 *)
to_list(s) ==
    IF Len(s) = 0 THEN <<>>
    ELSE LET parts == Split(s)
         IN  SelectSeq([i \in 1..Len(parts) |-> Strip(parts[i])], NonEmpty)

NoFetched == [some |-> FALSE, doc |-> NoDoc]

(* app.py:299-311 *)
doc_out(u, f, fetched) ==
    [URL |-> IF Len(u) > 0 THEN Strip(u) ELSE NoneText,
     Movie |-> IF Len(f.mv) > 0 THEN f.mv ELSE NoneText,
     Genre |-> to_list(f.genre_text),
     Year |-> IF fetched.some THEN fetched.doc.Year ELSE NoneInt,
     rating |-> IF fetched.some THEN fetched.doc.rating ELSE NoneFloat,
     Director |-> to_list(f.dir_text),
     votes |-> IF fetched.some THEN fetched.doc.votes ELSE NoneInt,
     Writer |-> to_list(f.writer_text),
     Country |-> to_list(f.country_text),
     Runtime |-> IF fetched.some THEN fetched.doc.Runtime ELSE NoneInt,
     Gross |-> IF f.gross_num # 0 THEN PyInt(f.gross_num) ELSE NoneInt]

EmptyDoc == doc_out(<<>>, CHOOSE f \in Forms : Len(f.mv) = 0, NoFetched)

(* a filter: the fields it names and the values they must have *)
UrlFilter(u) == [byUrl |-> TRUE, URL |-> u, Movie |-> NoneText, Year |-> NoneInt]
MovieYearFilter(m, y) == [byUrl |-> FALSE, URL |-> NoneText, Movie |-> m, Year |-> y]

(* app.py:313: a dict value is used as a condition: None and "" are false *)
SaveKey(d) ==
    IF d.URL # NoneText /\ Len(d.URL) > 0 THEN UrlFilter(d.URL)
    ELSE MovieYearFilter(d.Movie, d.Year)

Matches(d, key) ==
    IF key.byUrl THEN d.URL = key.URL
    ELSE d.Movie = key.Movie /\ d.Year = key.Year

(* update_one(key, {"$set": doc}, upsert=True): the first match takes the *)
(* fields of doc, which are all its fields; without a match doc is added  *)
update_one_upsert(coll, key, d) ==
    LET hits == {i \in 1..Len(coll) : Matches(coll[i], key)} IN
    IF hits = {} THEN Append(coll, d)
    ELSE [coll EXCEPT ![CHOOSE i \in hits : \A j \in hits : i <= j] = d]

(* the identity of a record: its URL when it has one, else (Movie, Year) *)
IdentityKey(d) ==
    IF d.URL # NoneText THEN [byUrl |-> TRUE, URL |-> d.URL, Movie |-> NoneText, Year |-> NoneInt]
    ELSE [byUrl |-> FALSE, URL |-> NoneText, Movie |-> d.Movie, Year |-> d.Year]

KeysOf(coll) == {IdentityKey(coll[i]) : i \in 1..Len(coll)}

Scraped(d) == <<d.Year, d.rating, d.votes, d.Runtime>>

NullScraped == <<NoneInt, NoneFloat, NoneInt, NoneInt>>

(* the page a URL serves: a title with every member given at X, another *)
(* title with fewer members at Y                                        *)
WebPage(u) ==
    IF u = UrlX
    THEN PageOf([layout |-> 3, dp |-> 2, agg |-> 2, rv |-> 2, rc |-> 2, dur |-> 2, rt |-> 1])
    ELSE PageOf([layout |-> 4, dp |-> 3, agg |-> 2, rv |-> 5, rc |-> 1, dur |-> 3, rt |-> 1])

(***************************************************************************)
(* What an operation leaves for the properties to read.                    *)
(***************************************************************************)
NoRet ==
    [op |-> "none", bk |-> "up", exc |-> None, raised |-> FALSE, hit |-> FALSE,
     queried |-> FALSE, count |-> 0, sdocs |-> {}, df |-> <<>>, popBefore |-> {},
     arg |-> 0, ids |-> {}, confirmed |-> FALSE, bk2 |-> "up", exc2 |-> None,
     doc |-> EmptyDoc, again |-> FALSE]

NoCache == [has |-> FALSE, df |-> <<>>]

StoreVars == <<pop, ds, backend>>
GlobalVars == <<client, db, col, ds_col>>
CacheVars == <<cache, age>>
Tab2Vars == <<url, fetched_doc>>

SetGlobals(g) ==
    /\ client' = g.client
    /\ db' = g.db
    /\ col' = g.col
    /\ ds_col' = g.ds_col

(* app.py:215  remaining = len(df_all) *)
remaining == Len(df_all)

(* st.cache_data(ttl=10): an entry younger than ttl answers the call *)
CacheFresh == cache.has /\ age < TTL

(* a clear that clears nothing *)
CacheKeep == cache

(* st.cache_data.clear() *)
CacheClear == NoCache

(* where the script goes after load_df() returned *)
AfterLoad(btn, n) ==
    IF btn \in {"preview", "draw", "delete_one_by_id"} /\ n > 0 THEN "tab1"
    ELSE IF btn \in {"fetch", "save", "save_movie_record"} THEN "tab2"
    ELSE "idle"

(***************************************************************************)
(* The environment.  The program reads the backend and the clock only      *)
(* inside a run, so a change is taken where a run can observe it: the      *)
(* backend's at any point of a run, the clock's before load_df() is called. *)
(***************************************************************************)
BackendChange ==
    \E bk \in Backends :
        /\ pc # "idle"
        /\ bk # backend
        /\ backend' = bk
        /\ UNCHANGED <<pop, ds, GlobalVars, CacheVars, pc, button, really, df_all,
                       shown, shownAtConfirm, Tab2Vars, page, ret>>

Tick ==
    /\ pc = "load"
    /\ cache.has
    /\ age < TTL
    /\ age' = Min(age + TickSeconds, TTL)
    /\ UNCHANGED <<StoreVars, GlobalVars, cache, pc, button, really, df_all,
                   shown, shownAtConfirm, Tab2Vars, page, ret>>

(***************************************************************************)
(* A script run starts: app.py:41-44 rebind the globals, and the page is   *)
(* drawn afresh, so the previous run's preview leaves the screen.          *)
(***************************************************************************)
StartRun(btn) ==
    /\ SetGlobals(NoGlobals)
    /\ button' = btn
    /\ pc' = IF btn = "test" THEN "test" ELSE "load"
    /\ df_all' = <<>>                     \* not yet bound in this run
    /\ shown' = {}
    /\ ret' = NoRet

PopButtons == {"none", "test", "preview", "draw"}

(* a click reruns the script with that button reading True *)
Press(btn) ==
    /\ pc = "idle"
    /\ btn = "draw" => really          \* disabled=not really
    /\ StartRun(btn)
    /\ UNCHANGED <<StoreVars, CacheVars, really, shownAtConfirm, Tab2Vars, page>>

(* the operator clicks a button of tab 1 (or causes a plain rerun) *)
Interact == \E btn \in PopButtons : Press(btn)

(* delete_one_by_id and save_movie_record have no widget; a caller is taken *)
(* to be a handler like the others: it runs in a script run of its own,     *)
(* where the handlers of its tab run                                        *)
CallDeleteOneById == Press("delete_one_by_id")

CallSaveMovieRecord == Press("save_movie_record")

(* app.py:239: the operator ticks or unticks the checkbox, which reruns *)
(* the script                                                          *)
ToggleReallyStep ==
    /\ pc = "idle"
    /\ really' = ~really
    /\ StartRun("none")
    /\ UNCHANGED <<StoreVars, CacheVars, Tab2Vars, page>>

ToggleReally ==
    /\ ToggleReallyStep
    /\ UNCHANGED shownAtConfirm

(* the same step, keeping what the screen showed when the box was ticked: *)
(* the previous run's output is still displayed at that moment            *)
ToggleReallyObserved ==
    /\ ToggleReallyStep
    /\ shownAtConfirm' = IF really' THEN shown ELSE shownAtConfirm

(* app.py:202-207 *)
TestConnection ==
    /\ pc = "test"
    /\ LET c == ensure_connection(Globals, backend) IN
        /\ SetGlobals(c.g)
        /\ ret' = [NoRet EXCEPT !.op = "ping", !.bk = backend, !.exc = c.exc]
    /\ pc' = "load"
    /\ UNCHANGED <<StoreVars, CacheVars, button, really, df_all, shown,
                   shownAtConfirm, Tab2Vars, page>>

(* app.py:56-68 behind st.cache_data, called at app.py:214 *)
LoadDf ==
    /\ pc = "load"
    /\ IF CacheFresh
       THEN /\ ret' = [NoRet EXCEPT !.op = "load_df", !.bk = backend, !.hit = TRUE,
                                    !.df = cache.df]
            /\ df_all' = cache.df
            /\ pc' = AfterLoad(button, Len(cache.df))
            /\ UNCHANGED <<GlobalVars, CacheVars>>
       ELSE LET r == load_df_body(Globals, backend, pop) IN
            /\ SetGlobals(r.g)
            /\ ret' = [NoRet EXCEPT !.op = "load_df", !.bk = backend, !.exc = r.exc,
                                    !.raised = r.raised, !.queried = TRUE,
                                    !.df = r.df]
            /\ IF r.raised
               THEN /\ pc' = "idle"          \* the run ends in the exception
                    /\ UNCHANGED <<cache, age, df_all>>
               ELSE /\ cache' = [has |-> TRUE, df |-> r.df]
                    /\ age' = 0
                    /\ df_all' = r.df
                    /\ pc' = AfterLoad(button, Len(r.df))
    /\ UNCHANGED <<StoreVars, button, really, shown, shownAtConfirm, Tab2Vars, page>>

(* app.py:222-235 *)
Preview ==
    /\ pc = "tab1"
    /\ button = "preview"
    /\ \E k \in 1..remaining : \E S \in Samples(pop, PyInt(k)) :
         LET r == sample_docs(Globals, backend, S) IN
         /\ SetGlobals(r.g)
         /\ shown' = r.sdocs
         /\ ret' = [NoRet EXCEPT !.op = "preview", !.bk = backend, !.exc = r.exc,
                                 !.arg = k, !.sdocs = r.sdocs]
    /\ pc' = "idle"
    /\ UNCHANGED <<StoreVars, CacheVars, button, really, df_all, shownAtConfirm,
                   Tab2Vars, page>>

DrawIdsFirstOnly(sdocs) ==
    IF sdocs = {} THEN {}
    ELSE {CHOOSE i \in IDsOf(sdocs) : \A j \in IDsOf(sdocs) : i <= j}

(* ids_to_delete = [d["ID"] for d in sdocs] *)
DrawIds(sdocs) == IDsOf(sdocs)

(* app.py:240-246; the backend may change between the two calls.  st.rerun() *)
(* starts the next run, which rebinds the globals and comes to load_df().    *)
DrawAndDelete ==
    /\ pc = "tab1"
    /\ button = "draw"
    /\ \E k \in 1..remaining : \E S \in Samples(pop, PyInt(k)) : \E bk2 \in Backends :
         LET r == sample_docs(Globals, backend, S)
             ids == DrawIds(r.sdocs)
             d == delete_many_by_ids(r.g, bk2, pop, ids)
         IN
         /\ pop' = d.docs
         /\ backend' = bk2
         /\ ret' = [NoRet EXCEPT !.op = "draw_delete", !.bk = backend, !.exc = r.exc,
                                 !.bk2 = bk2, !.exc2 = d.exc,
                                 !.arg = k, !.sdocs = r.sdocs, !.ids = ids,
                                 !.count = d.count, !.popBefore = pop,
                                 !.confirmed = really]
    /\ cache' = CacheClear
    /\ age' = 0
    /\ SetGlobals(NoGlobals)
    /\ button' = "none"
    /\ pc' = "load"
    /\ df_all' = <<>>
    /\ shown' = {}
    /\ UNCHANGED <<ds, really, shownAtConfirm, Tab2Vars, page>>

(* app.py:70-76 *)
DeleteOneById ==
    /\ pc = "tab1"
    /\ button = "delete_one_by_id"
    /\ \E id \in 0..MaxID + 1 :
         LET r == delete_one_by_id(Globals, backend, pop, id) IN
         /\ SetGlobals(r.g)
         /\ pop' = r.docs
         /\ ret' = [NoRet EXCEPT !.op = "delete_one_by_id", !.bk = backend,
                                 !.exc = r.exc, !.raised = r.raised, !.arg = id,
                                 !.count = r.count, !.popBefore = pop]
    /\ pc' = "idle"
    /\ UNCHANGED <<ds, backend, CacheVars, button, really, df_all, shown,
                   shownAtConfirm, Tab2Vars, page>>

(***************************************************************************)
(* Tab 2.                                                                  *)
(***************************************************************************)
Tab2Buttons == {"fetch", "save"}

(* the operator clicks a button of tab 2 *)
InteractTab2 == \E btn \in Tab2Buttons : Press(btn)

(* the operator edits the URL input, which reruns the script *)
SetUrl ==
    \E u \in UrlTexts :
        /\ pc = "idle"
        /\ u # url
        /\ url' = u
        /\ StartRun("none")
        /\ UNCHANGED <<StoreVars, CacheVars, really, shownAtConfirm, fetched_doc, page>>

(* app.py:259-269; requests.get fails on its own account, and always for *)
(* a URL without a scheme                                                 *)
Fetch ==
    /\ pc = "tab2"
    /\ button = "fetch"
    /\ IF Len(url) > 0
       THEN \E status \in {"ok", "fail"} :
              LET u == Strip(url)
                  pg == [WebPage(u) EXCEPT !.status = IF Len(u) = 0 THEN "fail" ELSE status]
                  r == fetch_min_from_imdb(u, pg)
              IN  /\ fetched_doc' = IF r.exc = None THEN [some |-> TRUE, doc |-> r.doc]
                                    ELSE NoFetched
                  /\ ret' = [NoRet EXCEPT !.op = "fetch", !.exc = r.exc]
       ELSE /\ ret' = [NoRet EXCEPT !.op = "fetch_skipped"]
            /\ UNCHANGED fetched_doc
    /\ pc' = "idle"
    /\ UNCHANGED <<StoreVars, GlobalVars, CacheVars, button, really, df_all, shown,
                   shownAtConfirm, url, page>>

(* app.py:294-317 *)
Save ==
    /\ pc = "tab2"
    /\ button = "save"
    /\ \E f \in Forms :
         LET c == ensure_connection(Globals, backend)
             d == doc_out(url, f, fetched_doc)
             exc == IF c.exc # None THEN c.exc ELSE CollectionCall(c.g.ds_col, backend)
             after == IF exc = None THEN update_one_upsert(ds, SaveKey(d), d) ELSE ds
         IN  /\ Len(after) <= MaxDS
             /\ SetGlobals(c.g)
             /\ ds' = after
             /\ ret' = [NoRet EXCEPT !.op = "save", !.bk = backend, !.exc = exc, !.doc = d,
                                     !.again = (IdentityKey(d) \in KeysOf(ds))]
    /\ pc' = "idle"
    /\ UNCHANGED <<pop, backend, CacheVars, button, really, df_all, shown,
                   shownAtConfirm, Tab2Vars, page>>

(* app.py:190-193, called with a document built as the form builds it. *)
(* It has no try: an exception leaves it.                              *)
SaveMovieRecord ==
    /\ pc = "tab2"
    /\ button = "save_movie_record"
    /\ \E f \in Forms :
         LET c == ensure_connection(Globals, backend)
             d == doc_out(url, f, fetched_doc)
             exc == IF c.exc # None THEN c.exc ELSE CollectionCall(c.g.ds_col, backend)
             after == IF exc = None THEN update_one_upsert(ds, UrlFilter(d.URL), d) ELSE ds
         IN  /\ Len(after) <= MaxDS
             /\ SetGlobals(c.g)
             /\ ds' = after
             /\ ret' = [NoRet EXCEPT !.op = "save_movie_record", !.bk = backend,
                                     !.exc = exc, !.raised = (exc # None), !.doc = d]
    /\ pc' = "idle"
    /\ UNCHANGED <<pop, backend, CacheVars, button, really, df_all, shown,
                   shownAtConfirm, Tab2Vars, page>>

(***************************************************************************)
(* The extractor on its own: one call on the page drawn at the start.      *)
(***************************************************************************)
FetchPage ==
    /\ pc = "fetch_min_from_imdb"
    /\ LET r == fetch_min_from_imdb(UrlX, PageOf(page)) IN
         /\ fetched_doc' = IF r.exc = None THEN [some |-> TRUE, doc |-> r.doc] ELSE NoFetched
         /\ ret' = [NoRet EXCEPT !.op = "fetch_min_from_imdb", !.exc = r.exc,
                                 !.raised = (r.exc # None)]
    /\ pc' = "idle"
    /\ UNCHANGED <<StoreVars, GlobalVars, CacheVars, button, really, df_all, shown,
                   shownAtConfirm, url, page>>

(***************************************************************************)
(* Specifications.                                                         *)
(***************************************************************************)
InitCommon ==
    /\ client = None
    /\ db = None
    /\ col = None
    /\ ds_col = None
    /\ cache = NoCache
    /\ age = 0
    /\ button = "none"
    /\ really = FALSE
    /\ df_all = <<>>
    /\ shown = {}
    /\ shownAtConfirm = {}
    /\ url = <<>>
    /\ fetched_doc = NoFetched
    /\ ret = NoRet

(* the sampler: any Population, an empty Data-Set *)
Init ==
    /\ InitCommon
    /\ backend \in Backends
    /\ pc = "idle"
    /\ pop \in SUBSET PopUniverse
    /\ ds = <<>>
    /\ page = FirstChoice

Next ==
    \/ BackendChange
    \/ Tick
    \/ Interact
    \/ ToggleReally
    \/ TestConnection
    \/ LoadDf
    \/ Preview
    \/ DrawAndDelete
    \/ CallDeleteOneById
    \/ DeleteOneById

Spec == Init /\ [][Next]_vars

(* the store operations, save_movie_record among them *)
NextStore ==
    \/ Next
    \/ CallSaveMovieRecord
    \/ SaveMovieRecord

SpecStore == Init /\ [][NextStore]_vars

(* the sampler workflow as the widgets drive it, with the screen at the *)
(* moment of confirmation kept                                          *)
NextFlow ==
    \/ BackendChange
    \/ Interact
    \/ ToggleReallyObserved
    \/ TestConnection
    \/ LoadDf
    \/ Preview
    \/ DrawAndDelete

SpecFlow == Init /\ [][NextFlow]_vars

(* tab 2: a Population that is left alone, a backend that stays as it is *)
InitDS ==
    /\ InitCommon
    /\ backend \in Backends
    /\ pc = "idle"
    /\ pop = {d \in PopUniverse : d.oid <= MaxID}
    /\ ds = <<>>
    /\ page = FirstChoice

NextDS ==
    \/ InteractTab2
    \/ SetUrl
    \/ LoadDf
    \/ Fetch
    \/ Save

SpecDS == InitDS /\ [][NextDS]_vars

(* the extractor: any page of PageChoices *)
InitFetch ==
    /\ InitCommon
    /\ backend = "up"
    /\ pc = "fetch_min_from_imdb"
    /\ pop = {}
    /\ ds = <<>>
    /\ page \in PageChoices

NextFetch == FetchPage

SpecFetch == InitFetch /\ [][NextFetch]_vars

(***************************************************************************)
(* Properties.                                                             *)
(***************************************************************************)

(* C2: with unique IDs, sample_docs(k) for 1 <= k < N followed by          *)
(* delete_many_by_ids of exactly the returned IDs, the backend reachable   *)
(* at both calls, leaves N - k documents, none with a sampled ID, every    *)
(* document that was not sampled still present and unchanged, and returns  *)
(* k.                                                                      *)
C2_SampleThenDelete ==
    (/\ ret.op = "draw_delete"
     /\ ret.bk = "up"
     /\ ret.bk2 = "up"
     /\ UniqueIDs(ret.popBefore)
     /\ 1 <= ret.arg
     /\ ret.arg < Cardinality(ret.popBefore))
    => /\ Cardinality(pop) = Cardinality(ret.popBefore) - ret.arg
       /\ \A d \in pop : d.ID \notin IDsOf(ret.sdocs)
       /\ \A d \in ret.popBefore : Project(d) \notin ret.sdocs => d \in pop
       /\ pop \subseteq ret.popBefore
       /\ ret.ids = IDsOf(ret.sdocs)
       /\ ret.count = ret.arg

C2_Witness ==
    /\ ret.op = "draw_delete"
    /\ ret.bk = "up"
    /\ ret.bk2 = "up"
    /\ UniqueIDs(ret.popBefore)
    /\ Cardinality(ret.popBefore) = 3
    /\ ret.arg = 2
    /\ Cardinality(pop) = 1

(* C7: delete_one_by_id never raises; with an id no document has it        *)
(* returns 0 and leaves the Population as it was; with an id some document *)
(* has, and the backend reachable, it returns 1 and removes one document   *)
(* with that id and nothing else.                                          *)
C7_DeleteOne ==
    ret.op = "delete_one_by_id"
    => /\ ~ret.raised
       /\ ret.arg \notin IDsOf(ret.popBefore)
            => (ret.count = 0 /\ pop = ret.popBefore)
       /\ (ret.arg \in IDsOf(ret.popBefore) /\ ret.bk = "up")
            => /\ ret.count = 1
               /\ \E d \in ret.popBefore : d.ID = ret.arg /\ pop = ret.popBefore \ {d}

C7_Witness ==
    /\ ret.op = "delete_one_by_id"
    /\ ret.bk = "up"
    /\ ret.count = 1
    /\ Cardinality({d \in ret.popBefore : d.ID = ret.arg}) = 2
    /\ Cardinality(pop) = Cardinality(ret.popBefore) - 1

(* C3: a store operation that runs while the backend is reachable, a      *)
(* failed connection attempt before it or not, connects where needed,      *)
(* succeeds and leaves non-null Population and Data-Set handles.           *)
C3_Reconnects ==
    (ret.op \in {"ping", "load_df", "preview", "delete_one_by_id"}
     /\ ~ret.hit /\ ret.bk = "up")
    => (ret.exc = None /\ col # None /\ ds_col # None)

(* C4: a failure inside a store operation never leaves it as an exception; *)
(* the operation returns its safe default and the collections are as they  *)
(* were.                                                                   *)
C4_NoPropagation ==
    (ret.op \in {"load_df", "delete_one_by_id", "preview", "save_movie_record"}
     /\ ret.exc # None)
    => /\ ~ret.raised
       /\ ret.df = <<>>
       /\ ret.count = 0
       /\ ret.sdocs = {}
       /\ (ret.op = "delete_one_by_id" => pop = ret.popBefore)

(* C6: a load_df() call that finds an entry younger than the ttl returns   *)
(* that entry, which is what the call that stored it returned, without a   *)
(* backend query; the draw-and-delete handler leaves no entry, and a call  *)
(* that finds none queries the backend and, when the query succeeds,       *)
(* returns the collection as it is then.                                   *)
C6_Cache ==
    [][/\ (pc = "load" /\ ret'.op = "load_df" /\ cache.has /\ age < TTL)
            => (ret'.hit /\ ~ret'.queried /\ ret'.df = cache.df /\ cache' = cache)
       /\ (cache' # cache /\ cache'.has)
            => (ret'.op = "load_df" /\ ret'.queried /\ cache'.df = ret'.df)
       /\ (pc = "tab1" /\ ret'.op = "draw_delete") => ~cache'.has
       /\ (pc = "load" /\ ret'.op = "load_df" /\ ~cache.has)
            => /\ ret'.queried
               /\ ret'.exc = None => (ret'.df = Listing(pop') /\ df_all' = ret'.df)
      ]_vars

C6_Witness ==
    /\ ret.op = "load_df"
    /\ ret.hit
    /\ ~ret.queried
    /\ ret.df # <<>>
    /\ age > 0

(* C8 as amended: the bulk delete of the draw handler runs only with the   *)
(* box ticked, on exactly the IDs of the sample the handler itself drew    *)
(* after that, and that sample is not put on the screen before the delete. *)
C8_ConfirmSampleDelete ==
    ret.op = "draw_delete"
    => /\ ret.confirmed
       /\ ret.ids = IDsOf(ret.sdocs)
       /\ ret.exc2 = None => pop = {d \in ret.popBefore : d.ID \notin ret.ids}
       /\ ret.exc2 # None => pop = ret.popBefore
       /\ shown = {}

C8_Witness ==
    /\ ret.op = "draw_delete"
    /\ ret.count = 2
    /\ shownAtConfirm # {}
    /\ ret.sdocs # shownAtConfirm

(* C8 as stated: what the bulk delete removes was presented before the     *)
(* confirmation, and the IDs passed are those of the presented sample.     *)
C8_SamplePresentConfirmDelete ==
    ret.op = "draw_delete"
    => /\ ret.ids = IDsOf(shownAtConfirm)
       /\ \A d \in ret.popBefore \ pop : Project(d) \in shownAtConfirm

(* C1: a save whose identity key is already stored leaves exactly one     *)
(* record with that key, and that record is the saved one, field by field. *)
C1_SecondSaveOverwrites ==
    (ret.op = "save" /\ ret.exc = None /\ ret.again)
    => LET same == {i \in 1..Len(ds) : IdentityKey(ds[i]) = IdentityKey(ret.doc)}
       IN  /\ Cardinality(same) = 1
           /\ \A i \in same : ds[i] = ret.doc

(* C9: a save changes no record with another identity key, and the store  *)
(* holds one record for each identity key saved so far.                   *)
C9_KeysDoNotCollide ==
    [][(pc = "tab2" /\ ret'.op = "save" /\ ret'.exc = None)
        => /\ \A i \in 1..Len(ds) :
                IdentityKey(ds[i]) # IdentityKey(ret'.doc)
                    => (i <= Len(ds') /\ ds'[i] = ds[i])
           /\ KeysOf(ds') = KeysOf(ds) \cup {IdentityKey(ret'.doc)}
           /\ Cardinality(KeysOf(ds')) = Len(ds')
      ]_vars

(* C10: a record stored with a URL holds either no scraped value or the   *)
(* values the page of that URL yields, and a save after a failed fetch    *)
(* carries no scraped value.                                              *)
C10_ScrapedBelongToUrl ==
    /\ \A i \in 1..Len(ds) :
         ds[i].URL # NoneText
            => \/ Scraped(ds[i]) = NullScraped
               \/ Scraped(ds[i]) =
                    Scraped(fetch_min_from_imdb(ds[i].URL, WebPage(ds[i].URL)).doc)
    /\ (ret.op = "save" /\ ~fetched_doc.some) => Scraped(ret.doc) = NullScraped

(* C5: with the page retrieved, fetch_min_from_imdb does not raise, and a  *)
(* page without a selectable structured-data object and without a runtime  *)
(* tag yields four null fields.                                            *)
C5_NeverRaises ==
    ret.op = "fetch_min_from_imdb"
    => /\ ret.exc = None
       /\ (Len(SelectLd(PageOf(page).blocks)) = 0 /\ PageOf(page).runtime_tag = NoneText)
            => (fetched_doc.some /\ Scraped(fetched_doc.doc) = NullScraped)

====
